---------------------------- MODULE Spec2Model ----------------------------
(***************************************************************************)
(* pyrobomotra: the supervisor loop of cli.py (app, sighup_handler,        *)
(* _graceful_shutdown, main) and the tracker of robot/model.py             *)
(* (RobotArm2Tracker).                                                     *)
(*                                                                         *)
(* Scheduling is asyncio's: one thread, and a task runs until its next     *)
(* await.  The supervisor position pc is "connect", "publish" or "sleep"   *)
(* while app is suspended at an await; the signal handler and the          *)
(* subscriber callback, which the event loop runs, fire only then.  The    *)
(* other positions are points inside one synchronous stretch of app.       *)
(*                                                                         *)
(* Coordinates are pairs of integers, segment lengths are integers, and    *)
(* joint angles are counted in quarter turns (0..3), so that cos and sin   *)
(* are the tables Cos4 and Sin4.  The timestamp field of a pose is left    *)
(* out.  The robot_id keyword that cli.py:87 hands to the constructor is   *)
(* kept as the tracker's configured id.                                    *)
(***************************************************************************)
EXTENDS Integers, Sequences, FiniteSets, TLC

(* ------------------------------ bounds -------------------------------- *)

\* number of trackers constructed in one run, over all its reload cycles
MaxTrackers == 3

\* number of message deliveries of one run
MaxDeliveries == 2

\* number of message deliveries of one run of FairSpec: a delivery bears on the
\* reload only by ending the process, which the first one can do
MaxFairDeliveries == 1

(* ------------------------------ inputs -------------------------------- *)

\* the --id argument of the command line (cli.py:50), given to every tracker
RobotId == "r1"

\* ids a telemetry message may carry
MsgIds == {"r1", "r2"}

RequiredFields == {"id", "theta1", "theta2", "base", "shoulder"}

\* the coordinates every telemetry message carries in base and shoulder
MsgPoint == <<9, 9>>

\* a decoded JSON object with the keys `fields`
ObjectMsg(fields, id, t1, t2) ==
    [kind |-> "object", fields |-> fields, id |-> id, theta1 |-> t1,
     theta2 |-> t2, base |-> MsgPoint, shoulder |-> MsgPoint]

\* no message (an update() call that found the queue empty)
NoMsg == [kind |-> "none", fields |-> {}, id |-> "", theta1 |-> 0,
          theta2 |-> 0, base |-> <<0, 0>>, shoulder |-> <<0, 0>>]

\* a body json.loads rejects
BadJson == [NoMsg EXCEPT !.kind = "badjson"]

\* a body that decodes to something that is no object (a JSON list)
NonObject == [NoMsg EXCEPT !.kind = "nonobject"]

ValidMsgs ==
    { ObjectMsg(RequiredFields, "r1", 1, 0),
      ObjectMsg(RequiredFields, "r2", 0, 1) }

\* objects that lack exactly one required field
LackingMsgs == { ObjectMsg(RequiredFields \ {f}, "r1", 1, 0) : f \in RequiredFields }

Messages == ValidMsgs \cup LackingMsgs \cup {BadJson, NonObject}

\* the snapshot the store holds under key "robot_<id>" when it holds one
SnapshotKey(id) == IF id = "r1" THEN 1 ELSE 2

\* the state store: each key holds its snapshot (by its number) or nothing (0)
Snapshot(k) ==
    IF k = 1
    THEN [base |-> <<1, 1>>, shoulder |-> <<1, 2>>,
          length_shoulder_to_elbow |-> 1, length_elbow_to_gripper |-> 2]
    ELSE [base |-> <<2, 2>>, shoulder |-> <<2, 1>>,
          length_shoulder_to_elbow |-> 2, length_elbow_to_gripper |-> 1]

(* --------------------------- configurations --------------------------- *)

Pub(type, exchange) == [type |-> type, exchange_name |-> exchange, connected |-> FALSE]

\* cb is what get_callback_handler_name() returns for the subscriber
Sub(type, cb) == [type |-> type, cb |-> cb, connected |-> FALSE]

RobotCfg(pubs, subs) == [protocol |-> TRUE, publishers |-> pubs, subscribers |-> subs]

CfgArm ==
    RobotCfg(<<Pub("amq", "rmt_robot"), Pub("amq", "visual")>>,
             <<Sub("amq", "robot_msg_handler")>>)

CfgArmShared ==
    RobotCfg(<<Pub("amq", "rmt_robot"), Pub("amq", "other"), Pub("amq", "rmt_robot")>>,
             <<Sub("amq", "no_such_handler"), Sub("amq", "robot_msg_handler"),
               Sub("amq", "robot_msg_handler")>>)

CfgArmQuiet ==
    RobotCfg(<<Pub("amq", "visual")>>, <<Sub("amq", "None")>>)

CfgNoProtocol == [protocol |-> FALSE, publishers |-> <<>>, subscribers |-> <<>>]

CfgBadType ==
    RobotCfg(<<Pub("amq", "visual")>>, <<Sub("mqtt", "robot_msg_handler")>>)

\* the contents the configuration file may have when it is read
Configs ==
    { <<CfgArm>>, <<CfgArmShared, CfgArmQuiet>>, <<CfgNoProtocol>>, <<CfgBadType>> }

(* ------------------------------- state -------------------------------- *)

VARIABLES
    pc,                 \* position of app (cli.py:62-101), "exited" after the process ended
    is_sighup_received, \* cli.py:34
    robots_in_ws,       \* cli.py:37, the trackers in the order they were appended
    cfg,                \* robots_config of the current cycle (cli.py:79)
    ci,                 \* index in cfg of the robot being constructed and connected
    ck,                 \* index of the connection awaited by connect()
    ri,                 \* index in robots_in_ws of the tracker being updated
    pp,                 \* index in call.plan of the publish being awaited
    db,                 \* the state store: message id -> snapshot number, 0 for none
    cycle,              \* number of configurations loaded so far
    delivered,          \* number of messages delivered so far
    ev,                 \* the delivery handled since app last ran, if any: tracker, class and
                        \* id of the message, what was raised
    call,               \* the update() call in progress, else the last one of the sweep
    exit_code,          \* exit status of the process, -1 while it runs
    exit_cause          \* what ended the process

vars == <<pc, is_sighup_received, robots_in_ws, cfg, ci, ck, ri, pp, db, cycle,
          delivered, ev, call, exit_code, exit_cause>>

\* app is suspended at an await: the event loop may run other callbacks
Suspended == pc \in {"connect", "publish", "sleep"}

(* ------------------------------ tracker ------------------------------- *)

\* RobotArm2Tracker.__init__ raises (and exits) on a type other than "amq"
UnsupportedType(robot_info) ==
    \/ \E i \in 1..Len(robot_info.publishers) : robot_info.publishers[i].type # "amq"
    \/ \E i \in 1..Len(robot_info.subscribers) : robot_info.subscribers[i].type # "amq"

\* the tracker __init__ builds; gen is the cycle that constructed it
RobotArm2Tracker(robot_info, robot_id, gen) ==
    [gen |-> gen,
     robot_id |-> robot_id,
     length_shoulder_to_elbow |-> 0,
     length_elbow_to_gripper |-> 0,
     base |-> <<0, 0>>,
     shoulder |-> <<0, 0>>,
     consume_telemetry_queue |-> <<>>,
     publishers |-> robot_info.publishers,
     subscribers |-> robot_info.subscribers]

\* the kinematic state of a tracker
StateOf(tr) ==
    [base |-> tr.base, shoulder |-> tr.shoulder,
     length_shoulder_to_elbow |-> tr.length_shoulder_to_elbow,
     length_elbow_to_gripper |-> tr.length_elbow_to_gripper]

InitialState == StateOf(RobotArm2Tracker(CfgArm, RobotId, 0))

\* connect() awaits the publishers' connections, then the subscribers'
NumConnections(tr) == Len(tr.publishers) + Len(tr.subscribers)

\* the k-th awaited connection of connect() has returned
Connected(tr, k) ==
    IF k <= Len(tr.publishers)
    THEN [tr EXCEPT !.publishers[k].connected = TRUE]
    ELSE [tr EXCEPT !.subscribers[k - Len(tr.publishers)].connected = TRUE]

\* publish that stops at the first publisher of the exchange
publish_first_match_only(tr, exchange_name) ==
    LET all == SelectSeq([i \in 1..Len(tr.publishers) |-> i],
                         LAMBDA i : tr.publishers[i].exchange_name = exchange_name)
    IN  IF Len(all) = 0 THEN <<>> ELSE <<all[1]>>

\* the publishers publish(exchange_name, msg) forwards to, in the order it awaits them
publish(tr, exchange_name) ==
    SelectSeq([i \in 1..Len(tr.publishers) |-> i],
              LAMBDA i : tr.publishers[i].exchange_name = exchange_name)

\* update_states without the assignment of shoulder
update_states_keeps_shoulder(tr, state_information) ==
    [tr EXCEPT !.length_shoulder_to_elbow = state_information.length_shoulder_to_elbow,
               !.length_elbow_to_gripper = state_information.length_elbow_to_gripper,
               !.base = state_information.base]

update_states(tr, state_information) ==
    [tr EXCEPT !.length_shoulder_to_elbow = state_information.length_shoulder_to_elbow,
               !.length_elbow_to_gripper = state_information.length_elbow_to_gripper,
               !.base = state_information.base,
               !.shoulder = state_information.shoulder]

\* the key of the snapshot stored for robot_id, 0 when there is none
get_states_from_db(store, robot_id) == store[robot_id]

Cos4(q) == CASE q % 4 = 0 -> 1 [] q % 4 = 1 -> 0 [] q % 4 = 2 -> -1 [] OTHER -> 0

Sin4(q) == CASE q % 4 = 0 -> 0 [] q % 4 = 1 -> 1 [] q % 4 = 2 -> 0 [] OTHER -> -1

get_forward_kinematics(tr, theta1, theta2) ==
    LET elbow == <<tr.shoulder[1] + tr.length_shoulder_to_elbow * Cos4(theta1),
                   tr.shoulder[2] + tr.length_shoulder_to_elbow * Sin4(theta1)>>
        wrist == <<elbow[1] + tr.length_elbow_to_gripper * Cos4(theta1 + theta2),
                   elbow[2] + tr.length_elbow_to_gripper * Sin4(theta1 + theta2)>>
    IN  [elbow |-> elbow, wrist |-> wrist]

NoPose == [id |-> "", base |-> <<0, 0>>, shoulder |-> <<0, 0>>,
           elbow |-> <<0, 0>>, wrist |-> <<0, 0>>]

\* result_rmt_robot of update()
ResultRmtRobot(tr, new_measurement) ==
    LET kinematic_result == get_forward_kinematics(tr, new_measurement.theta1,
                                                   new_measurement.theta2)
    IN  [id |-> new_measurement.id, base |-> tr.base, shoulder |-> tr.shoulder,
         elbow |-> kinematic_result.elbow, wrist |-> kinematic_result.wrist]

\* the publishes update() awaits: exchange "rmt_robot", then exchange "visual"
PublishPlan(tr) ==
    LET rmt == publish(tr, "rmt_robot")
        vis == publish(tr, "visual")
    IN  [i \in 1..Len(rmt) |-> [pub |-> rmt[i], exchange |-> "rmt_robot"]]
        \o [i \in 1..Len(vis) |-> [pub |-> vis[i], exchange |-> "visual"]]

\* update() when the queue is empty: nothing is taken, read or published
IdleUpdate(tr) ==
    [tr |-> tr, msg |-> NoMsg, dbRead |-> FALSE, snap |-> 0, pose |-> NoPose,
     plan |-> <<>>]

\* update() that takes base and shoulder from the message instead of the snapshot
UpdateWith_from_message(taken, store, new_measurement) ==
    LET state_info == get_states_from_db(store, new_measurement.id)
    IN  IF state_info # 0
        THEN LET upd == [update_states(taken, Snapshot(state_info))
                            EXCEPT !.base = new_measurement.base,
                                   !.shoulder = new_measurement.shoulder]
             IN  [tr |-> upd, msg |-> new_measurement, dbRead |-> TRUE,
                  snap |-> state_info,
                  pose |-> ResultRmtRobot(upd, new_measurement),
                  plan |-> PublishPlan(upd)]
        ELSE [tr |-> taken, msg |-> new_measurement, dbRead |-> TRUE,
              snap |-> 0, pose |-> NoPose, plan |-> <<>>]

\* update() that puts a message without snapshot back on the queue for a later tick
UpdateWith_requeues(taken, store, new_measurement) ==
    LET state_info == get_states_from_db(store, new_measurement.id)
    IN  IF state_info # 0
        THEN LET upd == update_states(taken, Snapshot(state_info))
             IN  [tr |-> upd, msg |-> new_measurement, dbRead |-> TRUE,
                  snap |-> state_info,
                  pose |-> ResultRmtRobot(upd, new_measurement),
                  plan |-> PublishPlan(upd)]
        ELSE [tr |-> [taken EXCEPT !.consume_telemetry_queue = Append(@, new_measurement)],
              msg |-> new_measurement, dbRead |-> TRUE,
              snap |-> 0, pose |-> NoPose, plan |-> <<>>]

\* update() from the dequeued new_measurement to its first await (model.py:176-191):
\* the tracker afterwards, the message taken, whether the store was read, the
\* snapshot found, the pose and the publishes to await
UpdateWith(taken, store, new_measurement) ==
    LET state_info == get_states_from_db(store, new_measurement.id)
    IN  IF state_info # 0
        THEN LET upd == update_states(taken, Snapshot(state_info))
             IN  [tr |-> upd, msg |-> new_measurement, dbRead |-> TRUE,
                  snap |-> state_info,
                  pose |-> ResultRmtRobot(upd, new_measurement),
                  plan |-> PublishPlan(upd)]
        ELSE [tr |-> taken, msg |-> new_measurement, dbRead |-> TRUE,
              snap |-> 0, pose |-> NoPose, plan |-> <<>>]

\* update() taking the newest message instead of the oldest
update_takes_newest(tr, store) ==
    LET q == tr.consume_telemetry_queue
    IN  IF Len(q) = 0
        THEN IdleUpdate(tr)
        ELSE UpdateWith([tr EXCEPT !.consume_telemetry_queue = SubSeq(q, 1, Len(q) - 1)],
                        store, q[Len(q)])

\* update() refreshing the state from the tracker's own snapshot when the queue is empty
update_refreshes_when_idle(tr, store) ==
    LET q == tr.consume_telemetry_queue
        own == get_states_from_db(store, tr.robot_id)
    IN  IF Len(q) = 0
        THEN IF own # 0
             THEN [IdleUpdate(update_states(tr, Snapshot(own))) EXCEPT !.dbRead = TRUE]
             ELSE [IdleUpdate(tr) EXCEPT !.dbRead = TRUE]
        ELSE UpdateWith([tr EXCEPT !.consume_telemetry_queue = Tail(q)], store, Head(q))

\* update() up to its first await (model.py:171-191)
update(tr, store) ==
    IF Len(tr.consume_telemetry_queue) = 0
    THEN IdleUpdate(tr)
    ELSE UpdateWith([tr EXCEPT !.consume_telemetry_queue = Tail(@)], store,
                    Head(tr.consume_telemetry_queue))

\* robot_msg_handler without the test for "base"
robot_msg_handler_skips_base(tr, message_body) ==
    IF (RequiredFields \ {"base"}) \subseteq message_body.fields
    THEN [tr EXCEPT !.consume_telemetry_queue = Append(@, message_body)]
    ELSE tr

\* robot_msg_handler that also takes base and shoulder over from the message
robot_msg_handler_writes_state(tr, message_body) ==
    IF RequiredFields \subseteq message_body.fields
    THEN [tr EXCEPT !.consume_telemetry_queue = Append(@, message_body),
                    !.base = message_body.base,
                    !.shoulder = message_body.shoulder]
    ELSE tr

robot_msg_handler(tr, message_body) ==
    IF RequiredFields \subseteq message_body.fields
    THEN [tr EXCEPT !.consume_telemetry_queue = Append(@, message_body)]
    ELSE tr

\* the attributes getattr(self, cb_str) finds
HandlerNames == {"robot_msg_handler"}

\* the loop over self.subscribers of consume_telemetry_msgs, from subscriber k on;
\* raised collects the stages that raised an exception
RECURSIVE Dispatch(_, _, _, _)
Dispatch(tr, message_body, k, raised) ==
    IF k > Len(tr.subscribers)
    THEN [tr |-> tr, raised |-> raised, fatal |-> FALSE]
    ELSE LET cb_str == tr.subscribers[k].cb
         IN  IF cb_str = "None"
             THEN Dispatch(tr, message_body, k + 1, raised)
             ELSE IF cb_str \notin HandlerNames
             THEN Dispatch(tr, message_body, k + 1, raised \cup {"resolve"})
             ELSE IF message_body.kind # "object"
             THEN [tr |-> tr, raised |-> raised \cup {"run"}, fatal |-> TRUE]
             ELSE Dispatch(robot_msg_handler(tr, message_body), message_body,
                           k + 1, raised)

\* consume_telemetry_msgs dropping a body it cannot decode instead of exiting
consume_telemetry_msgs_drops_undecodable(tr, m) ==
    IF m.kind = "badjson"
    THEN [tr |-> tr, raised |-> {"decode"}, fatal |-> FALSE]
    ELSE Dispatch(tr, m, 1, {})

consume_telemetry_msgs(tr, m) ==
    IF m.kind = "badjson"
    THEN [tr |-> tr, raised |-> {"decode"}, fatal |-> TRUE]
    ELSE Dispatch(tr, m, 1, {})

(* ----------------------------- supervisor ----------------------------- *)

\* `for each_robot in robots_in_ws: del each_robot` unbinds the loop variable only
_graceful_shutdown(ws) == ws

\* the sweep leaving for the drain as soon as the flag is set
SweepNext_breaks_on_flag(i, n, hup) ==
    IF hup THEN [pc |-> "drain", ri |-> 0]
    ELSE IF i < n THEN [pc |-> "update", ri |-> i + 1] ELSE [pc |-> "sleep", ri |-> 0]

\* where app goes when update() of tracker i of n returns: the for loop of the
\* sweep (cli.py:93-95) does not look at the flag hup
SweepNext(i, n, hup) ==
    IF i < n THEN [pc |-> "update", ri |-> i + 1] ELSE [pc |-> "sleep", ri |-> 0]

\* the loop test of `while True`: the flag is not looked at
LoopTest_ignores_flag(hup, n) ==
    IF n = 0 THEN [pc |-> "sleep", ri |-> 0] ELSE [pc |-> "update", ri |-> 1]

\* the test of `while not is_sighup_received`
LoopTest(hup, n) ==
    IF hup THEN [pc |-> "drain", ri |-> 0]
    ELSE IF n = 0 THEN [pc |-> "sleep", ri |-> 0]
    ELSE [pc |-> "update", ri |-> 1]

NoCall == [t |-> 0, gen |-> 0, msg |-> NoMsg, dbRead |-> FALSE, snap |-> 0,
           pose |-> NoPose, plan |-> <<>>, pubs |-> <<>>, hup |-> FALSE]

\* what a delivered body is: "complete" (an object with every required field),
\* "lacking" (an object without one of them), "nonobject" or "badjson"
ClassOf(m) ==
    IF m.kind # "object" THEN m.kind
    ELSE IF RequiredFields \subseteq m.fields THEN "complete" ELSE "lacking"

NoEv == [t |-> 0, class |-> "none", id |-> "", raised |-> {}, fatal |-> FALSE]

Init ==
    /\ pc = "load"
    /\ is_sighup_received = FALSE
    /\ robots_in_ws = <<>>
    /\ cfg = <<>>
    /\ ci = 0
    /\ ck = 0
    /\ ri = 0
    /\ pp = 0
    /\ db \in { [id \in MsgIds |-> IF id = RobotId THEN k ELSE SnapshotKey(id)] :
                   k \in {0, SnapshotKey(RobotId)} }
    /\ cycle = 0
    /\ delivered = 0
    /\ ev = NoEv
    /\ call = NoCall
    /\ exit_code = -1
    /\ exit_cause = "none"

\* the process ends with `status`
Exit(status, cause) ==
    /\ pc' = "exited"
    /\ exit_code' = status
    /\ exit_cause' = cause

\* read_config raises: app leaves its loop and main returns (cli.py:71-74)
LoadFail ==
    /\ pc = "load"
    /\ Exit(0, "load")
    /\ UNCHANGED <<is_sighup_received, robots_in_ws, cfg, ci, ck, ri, pp, db, cycle,
                   delivered, ev, call>>

\* read_config returns a configuration (cli.py:70, 79-80)
LoadOk ==
    /\ pc = "load"
    /\ \E c \in Configs :
         /\ Len(robots_in_ws) + Len(c) <= MaxTrackers
         /\ cfg' = c
         /\ ci' = 1
         /\ pc' = "construct"
    /\ cycle' = cycle + 1
    /\ UNCHANGED <<is_sighup_received, robots_in_ws, ck, ri, pp, db, delivered, ev,
                   call, exit_code, exit_cause>>

\* cli.py:83-85
ConstructNoProtocol ==
    /\ pc = "construct"
    /\ ~cfg[ci].protocol
    /\ Exit(255, "protocol")
    /\ UNCHANGED <<is_sighup_received, robots_in_ws, cfg, ci, ck, ri, pp, db, cycle,
                   delivered, ev, call>>

\* model.py:104-106, 120-126
ConstructUnsupported ==
    /\ pc = "construct"
    /\ cfg[ci].protocol
    /\ UnsupportedType(cfg[ci])
    /\ Exit(255, "type")
    /\ UNCHANGED <<is_sighup_received, robots_in_ws, cfg, ci, ck, ri, pp, db, cycle,
                   delivered, ev, call>>

\* AfterConnect that enters the tick loop once the first robot is connected
AfterConnect_starts_loop_early ==
    /\ pc' = "check"
    /\ ci' = 0

\* where app goes when connect() of the robot ci has returned
AfterConnect ==
    IF ci < Len(cfg)
    THEN /\ pc' = "construct"
         /\ ci' = ci + 1
    ELSE /\ pc' = "check"
         /\ ci' = 0

\* cli.py:87-89 up to the first await of connect()
Construct ==
    /\ pc = "construct"
    /\ cfg[ci].protocol
    /\ ~UnsupportedType(cfg[ci])
    /\ LET robo == RobotArm2Tracker(cfg[ci], RobotId, cycle)
       IN  /\ robots_in_ws' = Append(robots_in_ws, robo)
           /\ IF NumConnections(robo) > 0
              THEN /\ pc' = "connect"
                   /\ ck' = 1
                   /\ ci' = ci
              ELSE /\ AfterConnect
                   /\ ck' = 0
    /\ UNCHANGED <<is_sighup_received, cfg, ri, pp, db, cycle, delivered, ev, call, exit_code,
                   exit_cause>>

\* an awaited connect() of a publisher or subscriber returns (model.py:140-144)
ConnectDone ==
    /\ pc = "connect"
    /\ LET n == Len(robots_in_ws)
           robo == Connected(robots_in_ws[n], ck)
       IN  /\ robots_in_ws' = [robots_in_ws EXCEPT ![n] = robo]
           /\ IF ck < NumConnections(robo)
              THEN /\ ck' = ck + 1
                   /\ UNCHANGED <<pc, ci>>
              ELSE /\ AfterConnect
                   /\ ck' = 0
    /\ ev' = NoEv
    /\ UNCHANGED <<is_sighup_received, cfg, ri, pp, db, cycle, delivered, call, exit_code,
                   exit_cause>>

\* an awaited connect() raises: nothing in app or main catches it
ConnectFail ==
    /\ pc = "connect"
    /\ Exit(1, "connect")
    /\ UNCHANGED <<is_sighup_received, robots_in_ws, cfg, ci, ck, ri, pp, db, cycle,
                   delivered, ev, call>>

\* `while not is_sighup_received` (cli.py:92)
Check ==
    /\ pc = "check"
    /\ pc' = LoopTest(is_sighup_received, Len(robots_in_ws)).pc
    /\ ri' = LoopTest(is_sighup_received, Len(robots_in_ws)).ri
    /\ call' = NoCall
    /\ UNCHANGED <<is_sighup_received, robots_in_ws, cfg, ci, ck, pp, db, cycle,
                   delivered, ev, exit_code, exit_cause>>

\* `await robo.update()` (cli.py:94) up to the first await inside update()
Update ==
    /\ pc = "update"
    /\ LET r == update(robots_in_ws[ri], db)
           next == SweepNext(ri, Len(robots_in_ws), is_sighup_received)
       IN  /\ robots_in_ws' = [robots_in_ws EXCEPT ![ri] = r.tr]
           /\ call' = [t |-> ri, gen |-> robots_in_ws[ri].gen, msg |-> r.msg,
                       dbRead |-> r.dbRead, snap |-> r.snap, pose |-> r.pose,
                       plan |-> r.plan, pubs |-> <<>>, hup |-> FALSE]
           /\ IF Len(r.plan) > 0
              THEN /\ pc' = "publish"
                   /\ pp' = 1
                   /\ ri' = ri
              ELSE /\ pc' = next.pc
                   /\ ri' = next.ri
                   /\ pp' = 0
    /\ ev' = NoEv
    /\ UNCHANGED <<is_sighup_received, cfg, ci, ck, db, cycle, delivered, exit_code,
                   exit_cause>>

\* an awaited publisher.publish() returns (model.py:134)
PublishDone ==
    /\ pc = "publish"
    /\ LET next == SweepNext(ri, Len(robots_in_ws), is_sighup_received)
       IN  /\ call' = [call EXCEPT !.pubs = Append(@, [pub |-> call.plan[pp].pub,
                                                        exchange |-> call.plan[pp].exchange,
                                                        msg |-> call.pose])]
           /\ IF pp < Len(call.plan)
              THEN /\ pp' = pp + 1
                   /\ UNCHANGED <<pc, ri>>
              ELSE /\ pc' = next.pc
                   /\ ri' = next.ri
                   /\ pp' = 0
    /\ ev' = NoEv
    /\ UNCHANGED <<is_sighup_received, robots_in_ws, cfg, ci, ck, db, cycle, delivered,
                   exit_code, exit_cause>>

\* the sleep returning with the flag reset
Sleep_resets_flag ==
    /\ pc = "sleep"
    /\ pc' = "check"
    /\ ev' = NoEv
    /\ is_sighup_received' = FALSE
    /\ UNCHANGED <<robots_in_ws, cfg, ci, ck, ri, pp, db, cycle,
                   delivered, call, exit_code, exit_cause>>

\* `await asyncio.sleep(loop_interval)` returns (cli.py:95)
Sleep ==
    /\ pc = "sleep"
    /\ pc' = "check"
    /\ ev' = NoEv
    /\ UNCHANGED <<is_sighup_received, robots_in_ws, cfg, ci, ck, ri, pp, db, cycle,
                   delivered, call, exit_code, exit_cause>>

\* cli.py:98-101, then back to the top of `while True`
Drain ==
    /\ pc = "drain"
    /\ robots_in_ws' = _graceful_shutdown(robots_in_ws)
    /\ is_sighup_received' = FALSE
    /\ pc' = "load"
    /\ UNCHANGED <<cfg, ci, ck, ri, pp, db, cycle, delivered, ev, call,
                   exit_code, exit_cause>>

\* SIGHUP: the event loop runs sighup_handler (cli.py:54-59, 123)
Sighup ==
    /\ Suspended
    /\ Len(robots_in_ws) < MaxTrackers
    /\ is_sighup_received' = TRUE
    /\ call' = IF pc = "publish" THEN [call EXCEPT !.hup = TRUE] ELSE call
    /\ UNCHANGED <<pc, robots_in_ws, cfg, ci, ck, ri, pp, db, cycle, delivered, ev,
                   exit_code, exit_cause>>

\* the bus delivers a message to a connected subscriber of tracker t, which runs
\* the tracker's consume_telemetry_msgs (model.py:117, 237-269)
Deliver(t, m) ==
    /\ Suspended
    /\ delivered < MaxDeliveries
    /\ delivered' = delivered + 1
    /\ \E k \in 1..Len(robots_in_ws[t].subscribers) :
          robots_in_ws[t].subscribers[k].connected
    /\ LET r == consume_telemetry_msgs(robots_in_ws[t], m)
       IN  /\ robots_in_ws' = [robots_in_ws EXCEPT ![t] = r.tr]
           /\ ev' = [t |-> t, class |-> ClassOf(m), id |-> m.id, raised |-> r.raised,
                     fatal |-> r.fatal]
           /\ IF r.fatal
              THEN Exit(0, "dispatch")
              ELSE UNCHANGED <<pc, exit_code, exit_cause>>
    /\ UNCHANGED <<is_sighup_received, cfg, ci, ck, ri, pp, db, cycle, call>>

\* another process writes or deletes the snapshot of robot `id` in the state store; app reads the
\* store only inside update(), so the writes that land elsewhere are taken at the
\* await before the read
StoreWrite(id) ==
    /\ pc \in {"publish", "sleep"}
    /\ db' = [db EXCEPT ![id] = IF @ = 0 THEN SnapshotKey(id) ELSE 0]
    /\ UNCHANGED <<pc, is_sighup_received, robots_in_ws, cfg, ci, ck, ri, pp, cycle,
                   delivered, ev, call, exit_code, exit_cause>>

\* CTRL+C, taken while app waits at an await: KeyboardInterrupt leaves
\* run_until_complete, main calls _graceful_shutdown and returns (cli.py:126-128)
Interrupt ==
    /\ Suspended
    /\ robots_in_ws' = _graceful_shutdown(robots_in_ws)
    /\ Exit(0, "interrupt")
    /\ UNCHANGED <<is_sighup_received, cfg, ci, ck, ri, pp, db, cycle, delivered, ev,
                   call>>

Next ==
    \/ LoadFail
    \/ LoadOk
    \/ ConstructNoProtocol
    \/ ConstructUnsupported
    \/ Construct
    \/ ConnectDone
    \/ ConnectFail
    \/ Check
    \/ Update
    \/ PublishDone
    \/ Sleep
    \/ Drain
    \/ Sighup
    \/ \E t \in 1..Len(robots_in_ws), m \in Messages : Deliver(t, m)
    \/ StoreWrite(RobotId)
    \/ Interrupt

Spec == Init /\ [][Next]_vars

(* ------------------------------- claims ------------------------------- *)

\* app is in its tick loop (cli.py:92-95)
Running == pc \in {"check", "update", "publish", "sleep"}

Queue(i) == robots_in_ws[i].consume_telemetry_queue

HasHandler(tr) ==
    \E k \in 1..Len(tr.subscribers) : tr.subscribers[k].cb \in HandlerNames

\* C1: whenever the supervisor is Running, robots_in_ws holds exactly the trackers
\* constructed from the configuration of the current cycle: as many as the
\* configuration lists robots, none of them from an earlier cycle.
C1_TrackerSetIsFresh ==
    Running =>
        /\ Len(robots_in_ws) = Len(cfg)
        /\ \A i \in 1..Len(robots_in_ws) : robots_in_ws[i].gen = cycle

\* C2: no tracker created in an earlier cycle publishes: a publish in flight, and
\* every publish made by the update() call in progress, belongs to a tracker of
\* the current cycle.
C2_NoStalePublish ==
    (pc = "publish" \/ Len(call.pubs) > 0) => call.gen = cycle

\* C3: the delivery of an object that lacks one of the required fields leaves every
\* tracker (state and queue) as it was, publishes nothing, raises nothing fatal and
\* does not end the process.
C3_LackingFieldDropped ==
    [][(delivered' = delivered + 1 /\ ev'.class = "lacking") =>
          /\ robots_in_ws' = robots_in_ws
          /\ call' = call
          /\ ~ev'.fatal
          /\ pc' = pc
          /\ exit_code' = -1]_vars

\* a lacking message was delivered to a tracker whose handler ran on it
C3_Witness ==
    /\ ev.class = "lacking"
    /\ HasHandler(robots_in_ws[ev.t])
    /\ pc # "exited"

\* C4: a message whose id differs from the tracker's configured robot id is never
\* in the tracker's queue and is never the message an update() works on.
C4_MismatchedIdDropped ==
    /\ \A i \in 1..Len(robots_in_ws) :
          \A j \in 1..Len(Queue(i)) : Queue(i)[j].id = robots_in_ws[i].robot_id
    /\ (call.t # 0 /\ call.msg # NoMsg) => call.msg.id = robots_in_ws[call.t].robot_id

\* C5: update() on a tracker with an empty queue changes no tracker, does not read
\* or change the store, publishes nothing and returns without suspending: app goes
\* on to the next tracker or to the sleep of the sweep.
C5_EmptyUpdateNoOp ==
    [][(pc = "update" /\ Len(Queue(ri)) = 0) =>
          /\ robots_in_ws' = robots_in_ws
          /\ db' = db
          /\ ~call'.dbRead
          /\ call'.plan = <<>>
          /\ call'.pubs = <<>>
          /\ \/ pc' = "update" /\ ri' = ri + 1
             \/ pc' = "sleep"]_vars

\* an update() found the queue of a tracker empty whose state a snapshot had set
C5_Witness ==
    /\ call.t # 0
    /\ call.msg = NoMsg
    /\ StateOf(robots_in_ws[call.t]) # InitialState

\* C6: update() on a non-empty queue takes the head of the queue and leaves the
\* tail; nothing else shortens a queue, and a delivery only appends behind what
\* is waiting.
C6_DequeueOldestOne ==
    [][\A i \in 1..Len(robots_in_ws) :
          LET before == Queue(i)
              after == robots_in_ws'[i].consume_telemetry_queue
          IN  /\ (pc = "update" /\ ri = i /\ Len(before) > 0) =>
                    /\ after = Tail(before)
                    /\ call'.msg = Head(before)
              /\ Len(after) < Len(before) =>
                    /\ pc = "update" /\ ri = i
                    /\ after = Tail(before)
              /\ Len(after) >= Len(before) =>
                    SubSeq(after, 1, Len(before)) = before]_vars

\* an update() took one message and left a different, later one waiting
C6_Witness ==
    /\ call.t # 0
    /\ call.msg # NoMsg
    /\ Len(Queue(call.t)) > 0
    /\ Queue(call.t)[1] # call.msg

\* the pose update() publishes for message msg under snapshot number snap
ExpectedPose(snap, msg) ==
    LET s == Snapshot(snap)
        elbow == <<s.shoulder[1] + s.length_shoulder_to_elbow * Cos4(msg.theta1),
                   s.shoulder[2] + s.length_shoulder_to_elbow * Sin4(msg.theta1)>>
    IN  [id |-> msg.id, base |-> s.base, shoulder |-> s.shoulder, elbow |-> elbow,
         wrist |-> <<elbow[1] + s.length_elbow_to_gripper * Cos4(msg.theta1 + msg.theta2),
                     elbow[2] + s.length_elbow_to_gripper * Sin4(msg.theta1 + msg.theta2)>>]

\* C7: the state of a tracker is always the initial state or one whole snapshot;
\* while an update() is suspended in a publish, the tracker holds the snapshot
\* that call read, every pose of the call is the one computed from that snapshot
\* and the dequeued message, and no step (a delivery, a signal, a store write)
\* changes that tracker's state or begins another update().
C7_AtomicUpdate ==
    /\ [](/\ \A i \in 1..Len(robots_in_ws) :
                StateOf(robots_in_ws[i]) \in {InitialState, Snapshot(1), Snapshot(2)}
          /\ pc = "publish" =>
                /\ call.t = ri
                /\ call.snap # 0
                /\ StateOf(robots_in_ws[ri]) = Snapshot(call.snap)
                /\ call.pose = ExpectedPose(call.snap, call.msg)
                /\ \A j \in 1..Len(call.pubs) : call.pubs[j].msg = call.pose)
    /\ [][pc = "publish" =>
            /\ StateOf(robots_in_ws'[ri]) = StateOf(robots_in_ws[ri])
            /\ call'.t = call.t
            /\ call'.msg = call.msg
            /\ call'.snap = call.snap
            /\ call'.pose = call.pose
            /\ Len(call'.pubs) >= Len(call.pubs)]_vars

\* a message was delivered to a tracker while its update() was suspended between
\* its first and its second publish
C7_Witness ==
    /\ pc = "publish"
    /\ Len(call.pubs) = 1
    /\ ev.t = ri
    /\ ev.class = "complete"
    /\ Len(Queue(ri)) > 0

\* C8: app goes to the drain only from the test at the top of the tick loop; from
\* inside a sweep it goes on to the next publish, the next update() or the sleep,
\* whatever the flag is, and it leaves an update() only when every publish of the
\* call has been made.
C8_ReloadOnlyAtLoopTop ==
    [][/\ pc' = "drain" => pc = "check"
       /\ (pc \in {"update", "publish"} /\ pc' # "exited") =>
             pc' \in {"update", "publish", "sleep"}
       /\ (pc = "publish" /\ pc' # "exited" /\ <<pc', ri'>> # <<pc, ri>>) =>
             /\ Len(call'.pubs) = Len(call.plan)
             /\ \A j \in 1..Len(call.plan) :
                   /\ call'.pubs[j].pub = call.plan[j].pub
                   /\ call'.pubs[j].exchange = call.plan[j].exchange]_vars

\* a SIGHUP arrived while a publish was in flight, and the update() went on to
\* make all its publishes
C8_Witness ==
    /\ is_sighup_received
    /\ call.hup
    /\ pc \in {"update", "sleep"}
    /\ Len(call.plan) >= 2
    /\ Len(call.pubs) = Len(call.plan)

FatalCauses == {"load", "protocol", "type", "connect", "dispatch"}

\* C9: a process that a fatal error ended has a non-zero exit status.
C9_FatalExitNonZero ==
    (pc = "exited" /\ exit_cause \in FatalCauses) => exit_code # 0

PublishedOn(ex) ==
    LET on == SelectSeq(call.pubs, LAMBDA p : p.exchange = ex)
    IN  [i \in 1..Len(on) |-> on[i].pub]

\* C11: publish(exchange_name, msg) forwards the message to the publishers whose
\* exchange name equals exchange_name and to no other, in configuration order and
\* once each; when the call has returned every such publisher got it, several
\* publishers of one exchange all get it, and an exchange no publisher has gets
\* nothing without ending the process
C11_PublishToMatchingInOrder ==
    \A ex \in {"rmt_robot", "visual"} :
        LET got == PublishedOn(ex)
            publishers == IF call.t = 0 THEN <<>> ELSE robots_in_ws[call.t].publishers
            matching == { i \in 1..Len(publishers) : publishers[i].exchange_name = ex }
        IN  /\ \A k \in 1..Len(got) : got[k] \in matching
            /\ \A k \in 1..Len(got) : \A l \in 1..Len(got) : k < l => got[k] < got[l]
            /\ \A k \in 1..Len(call.pubs) : call.pubs[k].msg = call.pose
            /\ (call.snap # 0 /\ pc \in {"update", "sleep", "check"})
                   => { got[k] : k \in 1..Len(got) } = matching

\* a pose went to both "rmt_robot" publishers of a tracker, past the publisher of
\* another exchange between them, and to nobody on "visual"
C11_Witness ==
    /\ pc \in {"update", "sleep"}
    /\ call.snap # 0
    /\ PublishedOn("rmt_robot") = <<1, 3>>
    /\ PublishedOn("visual") = <<>>
    /\ robots_in_ws[call.t].publishers[2].exchange_name = "other"

\* the k-th connection connect() awaits for tr has returned
IsConnected(tr, k) ==
    IF k <= Len(tr.publishers)
    THEN tr.publishers[k].connected
    ELSE tr.subscribers[k - Len(tr.publishers)].connected

\* the trackers constructed in the current cycle
BuiltThisCycle == { i \in 1..Len(robots_in_ws) : robots_in_ws[i].gen = cycle }

\* what ends a cycle before its tick loop
SetupFailures == {"load", "protocol", "type", "connect"}

\* C12: update() runs on a tracker only after the configuration was loaded and
\* every robot it lists was constructed and connected, publishers then
\* subscribers, one connection at a time; a failure of loading, construction or
\* a connection ends the cycle before any update() call of that cycle, with the
\* remaining connections and robots not attempted
C12_UpdateOnlyAfterSetup ==
    /\ pc \in {"check", "update", "publish", "sleep", "drain"} =>
          /\ cycle > 0
          /\ Cardinality(BuiltThisCycle) = Len(cfg)
          /\ \A i \in 1..Len(robots_in_ws) :
                \A k \in 1..NumConnections(robots_in_ws[i]) :
                    IsConnected(robots_in_ws[i], k)
    /\ pc \in {"load", "construct", "connect"} => call = NoCall
    /\ pc = "connect" =>
          /\ Cardinality(BuiltThisCycle) = ci
          /\ \A k \in 1..NumConnections(robots_in_ws[Len(robots_in_ws)]) :
                IsConnected(robots_in_ws[Len(robots_in_ws)], k) <=> k < ck
    /\ (pc = "exited" /\ exit_cause \in SetupFailures) =>
          /\ call = NoCall
          /\ exit_cause \in {"protocol", "type"} => Cardinality(BuiltThisCycle) = ci - 1
          /\ exit_cause = "connect" =>
                /\ Cardinality(BuiltThisCycle) = ci
                /\ \A k \in 1..NumConnections(robots_in_ws[Len(robots_in_ws)]) :
                      IsConnected(robots_in_ws[Len(robots_in_ws)], k) <=> k < ck

\* the second tracker of a two-robot configuration is updated, both connected
C12_Witness ==
    /\ pc = "update"
    /\ Len(cfg) = 2
    /\ ri = Len(robots_in_ws)
    /\ robots_in_ws[ri].gen = cycle
    /\ cycle = 1

\* C13: an update() that dequeued a message whose id has a snapshot leaves the
\* tracker's state equal to that snapshot and publishes one pose: the message's
\* id, the snapshot's base and shoulder, elbow and wrist computed from the
\* snapshot and the message's theta1 and theta2; the pose goes to every
\* publisher on "rmt_robot" first, then to every publisher on "visual"; base and
\* shoulder of the message are in neither the state nor the pose
C13_SnapshotPoseRmtThenVisual ==
    call.snap # 0 =>
        LET tr == robots_in_ws[call.t]
            s == Snapshot(call.snap)
            n == Len(call.pubs)
        IN  /\ call.snap = SnapshotKey(call.msg.id)
            /\ StateOf(tr) = s
            /\ call.pose = ExpectedPose(call.snap, call.msg)
            /\ call.pose.id = call.msg.id
            /\ call.pose.base = s.base /\ call.pose.shoulder = s.shoulder
            /\ call.msg.base \notin {tr.base, tr.shoulder, call.pose.base, call.pose.shoulder}
            /\ call.msg.shoulder \notin {tr.base, tr.shoulder, call.pose.base,
                                         call.pose.shoulder}
            /\ \A k \in 1..n : call.pubs[k].msg = call.pose
            /\ \A k \in 1..n : \A l \in 1..n :
                  (call.pubs[k].exchange = "rmt_robot" /\ call.pubs[l].exchange = "visual")
                      => k < l
            /\ pc \in {"update", "sleep", "check"} =>
                  \A i \in 1..Len(tr.publishers) :
                      tr.publishers[i].exchange_name \in {"rmt_robot", "visual"} =>
                          \E k \in 1..n :
                              /\ call.pubs[k].pub = i
                              /\ call.pubs[k].exchange = tr.publishers[i].exchange_name

\* a tracker configured for r1 took a message of r2, holds the snapshot of r2, and
\* has published the pose on "rmt_robot" and then on "visual"
C13_Witness ==
    /\ call.snap = 2
    /\ call.msg.id = "r2"
    /\ robots_in_ws[call.t].base = Snapshot(2).base
    /\ Len(call.pubs) = 2
    /\ call.pubs[1].exchange = "rmt_robot"
    /\ call.pubs[2].exchange = "visual"
    /\ pc = "sleep"

\* C14: the state of a tracker (base, shoulder, both lengths) changes only in a
\* step of update() on that tracker; a delivery, accepted or dropped, changes no
\* tracker's state, store entry or update() call, and changes of the trackers at
\* most the queue of the tracker it was delivered to
C14_StateWrittenOnlyByUpdate ==
    [][/\ \A i \in 1..Len(robots_in_ws) :
             StateOf(robots_in_ws'[i]) # StateOf(robots_in_ws[i]) =>
                 (pc = "update" /\ ri = i)
       /\ delivered' # delivered =>
             /\ Len(robots_in_ws') = Len(robots_in_ws)
             /\ db' = db
             /\ call' = call
             /\ \A i \in 1..Len(robots_in_ws) :
                   /\ StateOf(robots_in_ws'[i]) = StateOf(robots_in_ws[i])
                   /\ robots_in_ws'[i] =
                          [robots_in_ws[i] EXCEPT !.consume_telemetry_queue =
                               robots_in_ws'[i].consume_telemetry_queue]
                   /\ i # ev'.t => robots_in_ws'[i] = robots_in_ws[i]]_vars

\* a message of r2 was accepted by a tracker that holds the snapshot of r1
C14_Witness ==
    /\ ev.class = "complete"
    /\ ev.id = "r2"
    /\ Len(Queue(ev.t)) > 0
    /\ StateOf(robots_in_ws[ev.t]) = Snapshot(1)

\* C15: one delivery of a message with all required fields to a tracker that has
\* a handler adds exactly one entry to the tracker's queue, however many
\* subscribers the tracker has
C15_OneEntryPerDelivery ==
    [][(delivered' # delivered /\ ev'.class = "complete" /\ ~ev'.fatal
        /\ HasHandler(robots_in_ws[ev'.t])) =>
           Len(robots_in_ws'[ev'.t].consume_telemetry_queue) = Len(Queue(ev'.t)) + 1]_vars

\* tr is the tracker the current cycle constructed from robot_info
BuiltFrom(tr, robot_info) ==
    /\ tr.gen = cycle
    /\ [k \in 1..Len(tr.publishers) |-> tr.publishers[k].exchange_name]
           = [k \in 1..Len(robot_info.publishers) |-> robot_info.publishers[k].exchange_name]
    /\ [k \in 1..Len(tr.subscribers) |-> tr.subscribers[k].cb]
           = [k \in 1..Len(robot_info.subscribers) |-> robot_info.subscribers[k].cb]

\* C16: in every sweep the i-th update() call is on the tracker of the i-th robot
\* listed in the configuration loaded for the cycle, so a sweep makes one call
\* per listed robot, in the order of the list
C16_SweepFollowsConfig ==
    pc \in {"update", "publish"} =>
        /\ ri \in 1..Len(cfg)
        /\ BuiltFrom(robots_in_ws[ri], cfg[ri])

\* C17: after an interrupt the process has ended with every tracker released: no
\* tracker remains in the tracker set and none is left connected
C17_InterruptReleasesTrackers ==
    exit_cause = "interrupt" =>
        /\ Len(robots_in_ws) = 0
        /\ \A i \in 1..Len(robots_in_ws) :
              \A k \in 1..NumConnections(robots_in_ws[i]) : ~IsConnected(robots_in_ws[i], k)

\* C18: an update() that dequeues a message whose id has no snapshot in the store
\* removes the message, leaves the tracker's state as it was, publishes nothing
\* and goes on with the sweep; the message is not put back, and a snapshot
\* written for the id afterwards changes no tracker or queue
C18_NoSnapshotMessageLost ==
    [][/\ (pc = "update" /\ Len(Queue(ri)) > 0 /\ db[Head(Queue(ri)).id] = 0) =>
             /\ robots_in_ws' =
                    [robots_in_ws EXCEPT ![ri].consume_telemetry_queue = Tail(@)]
             /\ call'.msg = Head(Queue(ri))
             /\ call'.snap = 0
             /\ call'.plan = <<>>
             /\ call'.pubs = <<>>
             /\ pc' \in {"update", "sleep"}
             /\ exit_code' = -1
       /\ db' # db => robots_in_ws' = robots_in_ws /\ call' = call /\ pc' = pc]_vars

\* a message of r1 was taken while r1 had no snapshot, and r1's snapshot was
\* written afterwards: the queue is empty and the tracker is in its initial state
C18_Witness ==
    /\ pc = "sleep"
    /\ call.msg.id = "r1"
    /\ call.snap = 0
    /\ db["r1"] # 0
    /\ Len(Queue(call.t)) = 0
    /\ StateOf(robots_in_ws[call.t]) = InitialState

\* the steps of app that follow the return of what it awaits, and its steps that
\* await nothing: the event loop resumes app whenever its awaited connect(),
\* publish() or sleep() has returned (cli.py:89-101)
AppStep == Construct \/ ConnectDone \/ Check \/ Update \/ PublishDone \/ Sleep \/ Drain

\* the steps of the runs of FairSpec
FairNext ==
    \/ LoadFail
    \/ LoadOk
    \/ ConstructNoProtocol
    \/ ConstructUnsupported
    \/ Construct
    \/ ConnectDone
    \/ ConnectFail
    \/ Check
    \/ Update
    \/ PublishDone
    \/ Sleep
    \/ Drain
    \/ Sighup
    \/ \E t \in 1..Len(robots_in_ws), m \in Messages :
          delivered < MaxFairDeliveries /\ Deliver(t, m)
    \/ StoreWrite(RobotId)
    \/ Interrupt

\* the runs in which app is not suspended forever
FairSpec == Init /\ [][FairNext]_vars /\ WF_vars(AppStep)

\* C19: once the flag is set, app drains and is back at the load of the
\* configuration, unless the process ends first; the flag goes from set to clear
\* only in the drain step, which follows the loop test with nothing in between
\* that could run a handler; while the flag is set no configuration is loaded, so
\* the signals of one cycle lead to one reload
C19_NoSignalLost ==
    /\ is_sighup_received ~> (pc = "load" \/ pc = "exited")
    /\ [](pc = "drain" => is_sighup_received /\ ~Suspended)
    /\ [](pc = "load" => ~is_sighup_received)
    /\ [][/\ (is_sighup_received /\ ~is_sighup_received') => (pc = "drain" /\ pc' = "load")
          /\ (pc = "check" /\ is_sighup_received) => pc' = "drain"
          /\ pc = "drain" => (pc' = "load" /\ ~is_sighup_received')
          /\ is_sighup_received => cycle' = cycle]_vars

\* two signals, each followed by a drain: app is at its third load
C19_Witness ==
    /\ pc = "load"
    /\ cycle = 2
    /\ ~is_sighup_received
    /\ Len(robots_in_ws) = 2

\* C20: while the flag is set no sweep starts: the loop test goes to the drain,
\* an update() begins only as the next one of the sweep in progress, the sleep
\* leads to the loop test, and the construction and connection of a cycle lead
\* to the loop test without any update() call
C20_NoNewSweepAfterSignal ==
    /\ [](pc \in {"construct", "connect"} => call.t = 0)
    /\ [][is_sighup_received =>
            /\ pc = "check" => pc' = "drain"
            /\ (pc' = "update" /\ (pc # "update" \/ ri' # ri)) =>
                  (pc \in {"update", "publish"} /\ ri' = ri + 1 /\ ri' <= Len(robots_in_ws))
            /\ pc = "sleep" => pc' \in {"sleep", "check", "exited"}
            /\ pc \in {"construct", "connect"} =>
                  pc' \in {"construct", "connect", "check", "exited"}]_vars

\* the signal came while the cycle was connecting: app is at its first loop test
\* of the cycle with the flag set and no update() call made
C20_Witness ==
    /\ pc = "check"
    /\ is_sighup_received
    /\ call.t = 0
    /\ cycle = 1
=============================================================================
